---- MODULE Spec2Model ----
(***************************************************************************)
(* Model of the polygon crate: the circularly indexed Outline of           *)
(* src/src/outline.rs (indexing, neighbour lookup, convexity and angle     *)
(* queries) and the order-normalising Outline constructor of               *)
(* src/src/lib.rs.                                                         *)
(*                                                                         *)
(* Numbers.  The index type isize is modelled as a two's-complement        *)
(* integer of IntBits bits.  Coordinates are small integers, which f32     *)
(* represents exactly, so differences, dot and cross products are exact.   *)
(* A value that involves a vector length is kept as the exact real         *)
(* num / sqrt(den2) that the f32 result approximates, together with the    *)
(* IEEE special values inf and NaN; f32 rounding and the sign of zero are  *)
(* not modelled.  An angle is kept as pi * PI + s * atan2(y, x).           *)
(***************************************************************************)
EXTENDS Integers, Sequences, FiniteSets

VARIABLES src, order, built, vertices, op, idx, res

vars == <<src, order, built, vertices, op, idx, res>>

---------------------------------------------------------------------------
(* Bounds of the model. *)

\* isize is modelled with this many bits
IntBits == 3

\* outlines hold at most this many vertices
MaxLen == 3

\* the coordinates vertices are drawn from: a 3 x 2 grid, which holds convex
\* and reflex corners, collinear triples and coincident points
Xs == {0, 1, 2}

Ys == {0, 1}

Pow2(k) == 2 ^ k

MinInt == -Pow2(IntBits - 1)

MaxInt == Pow2(IntBits - 1) - 1

ISize == MinInt .. MaxInt

Points == Xs \X Ys

\* the point sequences a caller may hand to a constructor (MaxLen <= MaxInt,
\* as a Vec never holds more than isize::MAX elements)
PointSeqs == UNION {[1 .. n -> Points] : n \in 0 .. MaxLen}

---------------------------------------------------------------------------
(* Results of a call: a returned value or a panic. *)

Ok(v) == [ok |-> TRUE, val |-> v]

Panic(why) == [ok |-> FALSE, fault |-> why]

NoResult == [ok |-> FALSE, fault |-> "none"]

---------------------------------------------------------------------------
(* Machine integers. *)

InRange(x) == MinInt <= x /\ x <= MaxInt

\* two's-complement wrap of a mathematical integer into isize
WrapInt(x) == ((x - MinInt) % Pow2(IntBits)) + MinInt

\* `i - 1` / `i + 1` on isize: with overflow checks the operation panics,
\* without them it wraps.
MachineAdd(i, d, checks) ==
    IF InRange(i + d) THEN Ok(i + d)
    ELSE IF checks THEN Panic("overflow")
    ELSE Ok(WrapInt(i + d))

\* the `%` of Rust: the remainder takes the sign of the dividend
TruncRem(i, n) == IF i >= 0 THEN i % n ELSE -((-i) % n)

\* mutant: the remainder made non-negative with abs() instead of adding n
RemEuclid_Abs(i, n) ==
    IF TruncRem(i, n) < 0 THEN -TruncRem(i, n) ELSE TruncRem(i, n)

\* isize::rem_euclid for a positive divisor
RemEuclid(i, n) ==
    IF TruncRem(i, n) < 0 THEN TruncRem(i, n) + n ELSE TruncRem(i, n)

---------------------------------------------------------------------------
(* Vec2 and f32 arithmetic (glam). *)

VSub(a, b) == <<a[1] - b[1], a[2] - b[2]>>

Dot(a, b) == a[1] * b[1] + a[2] * b[2]

\* z component of a.extend(0).cross(b.extend(0))
CrossZ(a, b) == a[1] * b[2] - a[2] * b[1]

\* the real number num / sqrt(den2), den2 > 0
Fin(num, den2) == [kind |-> "fin", num |-> num, den2 |-> den2]

\* +inf (sign = 1) or -inf (sign = -1)
Inf(sign) == [kind |-> "inf", sign |-> sign]

NaN == [kind |-> "nan"]

Sign(k) == IF k > 0 THEN 1 ELSE IF k < 0 THEN -1 ELSE 0

\* Vec2::length_reciprocal: 1.0 / self.length(); 1.0 / 0.0 is +inf
LengthReciprocal(v) ==
    IF Dot(v, v) = 0 THEN Inf(1) ELSE Fin(1, Dot(v, v))

\* IEEE product of two values
FMul(a, b) ==
    CASE a.kind = "nan" \/ b.kind = "nan" -> NaN
      [] a.kind = "fin" /\ b.kind = "fin" -> Fin(a.num * b.num, a.den2 * b.den2)
      [] a.kind = "inf" /\ b.kind = "inf" -> Inf(a.sign * b.sign)
      [] a.kind = "inf" /\ b.kind = "fin" ->
            IF b.num = 0 THEN NaN ELSE Inf(a.sign * Sign(b.num))
      [] a.kind = "fin" /\ b.kind = "inf" ->
            IF a.num = 0 THEN NaN ELSE Inf(b.sign * Sign(a.num))

\* the f32 comparison `x > 0f32`: false for NaN
FGtZero(x) ==
    CASE x.kind = "nan" -> FALSE
      [] x.kind = "inf" -> x.sign > 0
      [] x.kind = "fin" -> x.num > 0

Abs(k) == IF k < 0 THEN -k ELSE k

RECURSIVE Gcd(_, _)
Gcd(a, b) == IF b = 0 THEN a ELSE Gcd(b, a % b)

\* the angle pi * PI + s * atan2(y, x), (y, x) a primitive integer direction
Ang(pi, s, y, x) == [kind |-> "ang", pi |-> pi, s |-> s, y |-> y, x |-> x]

\* atan2(y, x) of integers, its direction reduced to lowest terms;
\* atan2(0, 0) = 0
Direction(y, x) ==
    IF y = 0 /\ x = 0 THEN Ang(0, 1, 0, 1)
    ELSE Ang(0, 1, y \div Gcd(Abs(y), Abs(x)), x \div Gcd(Abs(y), Abs(x)))

\* the direction (y, x) an atan2 argument pair points in
AtanY(sin, cos) ==
    CASE sin.kind = "inf" -> sin.sign
      [] cos.kind = "inf" -> 0
      [] OTHER -> sin.num

AtanX(sin, cos) ==
    CASE cos.kind = "inf" -> cos.sign
      [] sin.kind = "inf" -> 0
      [] OTHER -> cos.num

\* f32::atan2, `sin.atan2(cos)`: NaN if an argument is NaN, atan2(0, 0) = 0,
\* otherwise the angle in (-PI, PI] of the direction (cos, sin)
Atan2(sin, cos) ==
    IF sin.kind = "nan" \/ cos.kind = "nan" THEN NaN
    ELSE Direction(AtanY(sin, cos), AtanX(sin, cos))

\* `2f32 * PI - a`
TwoPiMinus(a) ==
    IF a.kind = "nan" THEN NaN
    ELSE Ang(2 - a.pi, -a.s, a.y, a.x)

---------------------------------------------------------------------------
(* Outline: construction (src/src/outline.rs and src/src/lib.rs). *)

Reverse(s) == [k \in 1 .. Len(s) |-> s[Len(s) + 1 - k]]

\* Outline::new of outline.rs: the vertices are collected in the order given
New(points) == points

\* mutant: the two match arms exchanged
NewOrdered_Swapped(points, ord) ==
    IF ord = "CounterClockwise" THEN Reverse(points) ELSE points

\* mutant: the order tag ignored
NewOrdered_NoRev(points, ord) == points

\* Outline::new of lib.rs: collected as given for CounterClockwise, through
\* rev() for Clockwise
NewOrdered(points, ord) ==
    IF ord = "CounterClockwise" THEN points ELSE Reverse(points)

---------------------------------------------------------------------------
(* Outline: queries (src/src/outline.rs).  `checks` says whether the build   *)
(* has integer overflow checks (debug) or not (release).                     *)

\* mutant: an empty outline answers with Vec2::default() instead of panicking
Index_Guarded(vs, i) ==
    IF Len(vs) = 0 THEN Ok(<<0, 0>>)
    ELSE Ok(vs[RemEuclid(i, Len(vs)) + 1])

\* impl Index<isize>: rem_euclid panics on a zero divisor
Index(vs, i) ==
    IF Len(vs) = 0 THEN Panic("rem_by_zero")
    ELSE Ok(vs[RemEuclid(i, Len(vs)) + 1])

\* self[j] for the outcome j of an index computation: its panic unwinds
IndexComputed(vs, j) == IF j.ok THEN Index(vs, j.val) ELSE j

\* self[i + d] with the index arithmetic done on isize
IndexAt(vs, i, d, checks) == IndexComputed(vs, MachineAdd(i, d, checks))

\* a tuple expression (a, b, c): the operands are evaluated left to right and
\* the first panic unwinds
Tuple3(a, b, c) ==
    IF ~a.ok THEN a
    ELSE IF ~b.ok THEN b
    ELSE IF ~c.ok THEN c
    ELSE Ok(<<a.val, b.val, c.val>>)

\* (self[i - 1], self[i], self[i + 1]), evaluated left to right
PrevThatNext(vs, i, checks) ==
    Tuple3(IndexAt(vs, i, -1, checks), Index(vs, i), IndexAt(vs, i, 1, checks))

\* (prev - that, next - that) of the triple prev_that_next returned
NeighborVectors(t) ==
    IF t.ok THEN Ok(<<VSub(t.val[1], t.val[2]), VSub(t.val[3], t.val[2])>>)
    ELSE t

ToNeighbors(vs, i, checks) == NeighborVectors(PrevThatNext(vs, i, checks))

\* norm_coef = prev_inv_len * next_inv_len
NormCoef(to_prev, to_next) ==
    FMul(LengthReciprocal(to_prev), LengthReciprocal(to_next))

\* (cos, sin) = (norm_coef * to_prev.dot(to_next), norm_coef * cross.z())
\* with cross = to_next x to_prev
CosSin(to_prev, to_next) ==
    << FMul(NormCoef(to_prev, to_next), Fin(Dot(to_prev, to_next), 1)),
       FMul(NormCoef(to_prev, to_next), Fin(CrossZ(to_next, to_prev), 1)) >>

\* (cos, sin) from the pair (to_prev, to_next) to_neighbors returned
CosSinOf(nb) == IF nb.ok THEN Ok(CosSin(nb.val[1], nb.val[2])) ELSE nb

\* (cos, sin) of the angle from the vector to the next vertex to the vector
\* to the previous one
InnerAngleCosSin(vs, i, checks) == CosSinOf(ToNeighbors(vs, i, checks))

\* sin >= 0f32
FGeZero(x) == FGtZero(x) \/ (x.kind = "fin" /\ x.num = 0)

SinGeZero(cs) == IF cs.ok THEN Ok(FGeZero(cs.val[2])) ELSE cs

\* mutant: sin >= 0f32
Convex_GeZero(vs, i, checks) == SinGeZero(InnerAngleCosSin(vs, i, checks))

\* `sin > 0f32` on the (cos, sin) inner_angle_cos_sin returned
SinGtZero(cs) == IF cs.ok THEN Ok(FGtZero(cs.val[2])) ELSE cs

\* let (_, sin) = self.inner_angle_cos_sin(i); sin > 0f32
Convex(vs, i, checks) == SinGtZero(InnerAngleCosSin(vs, i, checks))

\* `!c` on the value convex returned
Not(c) == IF c.ok THEN Ok(~c.val) ELSE c

\* !self.convex(i)
Concave(vs, i, checks) == Not(Convex(vs, i, checks))

\* `sin.atan2(cos)` on the (cos, sin) inner_angle_cos_sin returned
Atan2Of(cs) == IF cs.ok THEN Ok(Atan2(cs.val[2], cs.val[1])) ELSE cs

\* let (cos, sin) = self.inner_angle_cos_sin(i); sin.atan2(cos)
InnerAngle(vs, i, checks) == Atan2Of(InnerAngleCosSin(vs, i, checks))

\* PI - a
PiMinus(a) ==
    IF a.kind = "nan" THEN NaN
    ELSE Ang(1 - a.pi, -a.s, a.y, a.x)

PiMinusOf(a) == IF a.ok THEN Ok(PiMinus(a.val)) ELSE a

\* mutant: PI - self.inner_angle(i)
OuterAngle_Pi(vs, i, checks) == PiMinusOf(InnerAngle(vs, i, checks))

\* `2f32 * PI - a` on the angle inner_angle returned
TwoPiMinusOf(a) == IF a.ok THEN Ok(TwoPiMinus(a.val)) ELSE a

\* 2f32 * PI - self.inner_angle(i)
OuterAngle(vs, i, checks) == TwoPiMinusOf(InnerAngle(vs, i, checks))

---------------------------------------------------------------------------
(* The state machine: a caller builds one outline from a point sequence and  *)
(* then queries it any number of times, one synchronous call at a time: a    *)
(* call leaves its result in res until the caller drops it.                  *)

Orders == {"CounterClockwise", "Clockwise"}

Init ==
    /\ src \in PointSeqs
    /\ order = "none"
    /\ built = "no"
    /\ vertices = <<>>
    /\ op = "none"
    /\ idx = 0
    /\ res = NoResult

\* outline.rs: Outline::new(src.into_iter())
NewOutline ==
    /\ built = "no"
    /\ built' = "outline"
    /\ vertices' = New(src)
    /\ UNCHANGED <<src, order, op, idx, res>>

\* lib.rs: Outline::new(src.into_iter(), ord)
NewOrderedOutline ==
    /\ built = "no"
    /\ \E ord \in Orders :
          /\ order' = ord
          /\ vertices' = NewOrdered(src, ord)
    /\ built' = "ordered"
    /\ UNCHANGED <<src, op, idx, res>>

Query(name, i, r) ==
    /\ op = "none"
    /\ op' = name
    /\ idx' = i
    /\ res' = r
    /\ UNCHANGED <<src, order, built, vertices>>

\* outline[i], on either Outline type
DoIndex ==
    /\ built # "no"
    /\ \E i \in ISize : Query("index", i, Index(vertices, i))

DoPrevThatNext ==
    /\ built = "outline"
    /\ \E i \in ISize, checks \in BOOLEAN :
          Query("prev_that_next", i, PrevThatNext(vertices, i, checks))

DoToNeighbors ==
    /\ built = "outline"
    /\ \E i \in ISize, checks \in BOOLEAN :
          Query("to_neighbors", i, ToNeighbors(vertices, i, checks))

DoInnerAngleCosSin ==
    /\ built = "outline"
    /\ \E i \in ISize, checks \in BOOLEAN :
          Query("inner_angle_cos_sin", i, InnerAngleCosSin(vertices, i, checks))

DoConvex ==
    /\ built = "outline"
    /\ \E i \in ISize, checks \in BOOLEAN :
          Query("convex", i, Convex(vertices, i, checks))

DoConcave ==
    /\ built = "outline"
    /\ \E i \in ISize, checks \in BOOLEAN :
          Query("concave", i, Concave(vertices, i, checks))

DoInnerAngle ==
    /\ built = "outline"
    /\ \E i \in ISize, checks \in BOOLEAN :
          Query("inner_angle", i, InnerAngle(vertices, i, checks))

DoOuterAngle ==
    /\ built = "outline"
    /\ \E i \in ISize, checks \in BOOLEAN :
          Query("outer_angle", i, OuterAngle(vertices, i, checks))

\* the caller is done with the returned value (or has seen the panic of a
\* call made under catch_unwind) and is ready for the next call
Return ==
    /\ op # "none"
    /\ op' = "none"
    /\ idx' = 0
    /\ res' = NoResult
    /\ UNCHANGED <<src, order, built, vertices>>

Next ==
    \/ NewOutline
    \/ NewOrderedOutline
    \/ DoIndex
    \/ DoPrevThatNext
    \/ DoToNeighbors
    \/ DoInnerAngleCosSin
    \/ DoConvex
    \/ DoConcave
    \/ DoInnerAngle
    \/ DoOuterAngle
    \/ Return

Spec == Init /\ [][Next]_vars

---------------------------------------------------------------------------
(* Vocabulary of the properties. *)

N == Len(vertices)

IsFinite(x) == x.kind = "fin"

\* Where atan2(y, x) lies, in half-turns doubled: -1 for (-PI, 0), 0 for 0,
\* 1 for (0, PI), 2 for PI.
AtanLoc(y, x) ==
    IF y > 0 THEN 1 ELSE IF y < 0 THEN -1 ELSE IF x < 0 THEN 2 ELSE 0

\* Where an angle lies on the same scale: 2k is k * PI exactly, 2k + 1 is the
\* open interval (k * PI, (k + 1) * PI).
AngLoc(a) == 2 * a.pi + a.s * AtanLoc(a.y, a.x)

\* the sum of two angles over the same direction
AngAdd(a, b) == Ang(a.pi + b.pi, a.s + b.s, a.y, a.x)

\* the stored vertex at floor-modulo position k mod N, k a mathematical integer
At(k) == vertices[(k % N) + 1]

\* the neighbour vectors the returned query at idx was computed from
Nb == ToNeighbors(vertices, idx, FALSE)

NbNonZero == Nb.ok /\ Nb.val[1] # <<0, 0>> /\ Nb.val[2] # <<0, 0>>

\* cross_z(to_next, to_prev) = to_next.x * to_prev.y - to_next.y * to_prev.x
NbCross == Nb.val[2][1] * Nb.val[1][2] - Nb.val[2][2] * Nb.val[1][1]

Distinct3 ==
    /\ N = 3
    /\ vertices[1] # vertices[2]
    /\ vertices[2] # vertices[3]
    /\ vertices[1] # vertices[3]

---------------------------------------------------------------------------
\* C1: on a non-empty outline, indexing at any index i returns the stored
\* vertex at floor-modulo position i mod n; so at(i) = at(i + n) = at(i - n),
\* at(-1) = at(n - 1) and at(n) = at(0).
C1_CircularIndexing ==
    (built # "no" /\ N > 0) =>
        /\ (op = "index" => res.ok /\ res.val = At(idx))
        /\ \A i \in ISize :
              /\ Index(vertices, i) = Ok(At(i))
              /\ (i + N \in ISize => Index(vertices, i + N) = Index(vertices, i))
              /\ (i - N \in ISize => Index(vertices, i - N) = Index(vertices, i))
        /\ Index(vertices, -1) = Index(vertices, N - 1)
        /\ Index(vertices, N) = Index(vertices, 0)

\* a negative index that wrapped to the last of three distinct vertices
C1_Witness ==
    /\ Distinct3
    /\ op = "index"
    /\ idx = -4
    /\ res = Ok(vertices[3])

---------------------------------------------------------------------------
\* C2: on a non-empty outline, for every index i, prev_that_next(i) returns
\* (at(i-1), at(i), at(i+1)) and to_neighbors(i) returns
\* (at(i-1) - at(i), at(i+1) - at(i)).
C2_NeighborTriple ==
    (built = "outline" /\ N > 0) =>
        /\ (op = "prev_that_next" =>
                res = Ok(<<At(idx - 1), At(idx), At(idx + 1)>>))
        /\ (op = "to_neighbors" =>
                res = Ok(<<VSub(At(idx - 1), At(idx)), VSub(At(idx + 1), At(idx))>>))

---------------------------------------------------------------------------
\* C3: at a vertex whose neighbour vectors are non-zero, convex(i) is true
\* exactly when cross_z(to_next, to_prev) > 0 and concave(i) exactly when it
\* is <= 0; exactly one of the two holds, and the collinear case (= 0) is
\* concave.
C3_ConvexConcavePartition ==
    (built = "outline" /\ op \in {"convex", "concave"} /\ res.ok /\ NbNonZero) =>
        /\ (op = "convex" => res.val = (NbCross > 0))
        /\ (op = "concave" => res.val = (NbCross <= 0))
        /\ Convex(vertices, idx, FALSE).val # Concave(vertices, idx, FALSE).val
        /\ (NbCross = 0 => Concave(vertices, idx, FALSE).val)

\* a collinear vertex with non-zero neighbour vectors reported concave
C3_Witness ==
    /\ Distinct3
    /\ op = "concave"
    /\ res = Ok(TRUE)
    /\ NbNonZero
    /\ NbCross = 0

---------------------------------------------------------------------------
\* C4: the order-normalising constructor stores S as given for
\* CounterClockwise and reversed for Clockwise, so CounterClockwise from S
\* and Clockwise from reverse(S) hold the same vertex at every index.
C4_WindingNormalization ==
    (built = "ordered") =>
        /\ (order = "CounterClockwise" => vertices = src)
        /\ (order = "Clockwise" =>
                /\ N = Len(src)
                /\ \A k \in 1 .. N : vertices[k] = src[N + 1 - k])
        /\ LET rsrc == [k \in 1 .. Len(src) |-> src[Len(src) + 1 - k]]
               a == NewOrdered(src, "CounterClockwise")
               b == NewOrdered(rsrc, "Clockwise")
           IN  /\ Len(a) = Len(b)
               /\ \A i \in ISize : Index(a, i) = Index(b, i)

\* a Clockwise construction that stored three points back to front
C4_Witness ==
    /\ built = "ordered"
    /\ order = "Clockwise"
    /\ Len(src) = 3
    /\ src[1] # src[3]
    /\ vertices = <<src[3], src[2], src[1]>>
    /\ op = "index"
    /\ idx = 0
    /\ res = Ok(src[3])

---------------------------------------------------------------------------
\* C5: at a vertex whose neighbour vectors are non-zero, inner_angle(i) is an
\* interior angle in [0, 2 PI): a negative atan2 result is corrected by
\* adding 2 PI, so where sin < 0 the reported angle is the reflex one, > PI.
C5_InnerAngleRange ==
    (built = "outline" /\ op = "inner_angle" /\ res.ok /\ NbNonZero) =>
        /\ res.val.kind = "ang"
        /\ AngLoc(res.val) >= 0
        /\ AngLoc(res.val) < 4
        /\ (NbCross < 0 => AngLoc(res.val) > 2)

---------------------------------------------------------------------------
\* C6: at a vertex whose neighbour vectors are non-zero, outer_angle(i) is
\* 2 PI - inner_angle(i): the two add up to 2 PI (inner PI/2 gives outer
\* 3 PI/2, inner PI/4 gives outer 7 PI/4).
C6_AngleComplementarity ==
    (built = "outline" /\ op = "outer_angle" /\ res.ok /\ NbNonZero) =>
        LET inner == InnerAngle(vertices, idx, FALSE).val
            sum == AngAdd(inner, res.val)
        IN  /\ inner.kind = "ang"
            /\ res.val.kind = "ang"
            /\ res.val.y = inner.y /\ res.val.x = inner.x
            /\ sum.s = 0
            /\ sum.pi = 2
            \* inner PI/2 or PI/4 (in (0, PI)): outer lies in (PI, 2 PI)
            /\ (inner = Ang(0, 1, 1, 0) => AngLoc(res.val) = 3)
            /\ (inner = Ang(0, 1, 1, 1) => AngLoc(res.val) = 3)

\* the outer angle at the right-angled corner b of a = (0,0), b = (1,0),
\* c = (1,1): inner PI/2, outer 2 PI - PI/2
C6_Witness ==
    /\ built = "outline"
    /\ vertices = <<(<<0, 0>>), (<<1, 0>>), (<<1, 1>>)>>
    /\ op = "outer_angle"
    /\ idx = 1
    /\ res = Ok(Ang(2, -1, 1, 0))
    /\ InnerAngle(vertices, idx, FALSE) = Ok(Ang(0, 1, 1, 0))

---------------------------------------------------------------------------
\* C7: an Outline can be built from an empty sequence, but indexing it at any
\* index, and so every query on it, ends in a fatal arithmetic fault (the
\* remainder by zero of the index computation) instead of returning a value.
\* Where the fault is not the remainder by zero it is the overflow of i - 1
\* at the least index, which a build with overflow checks reports first.
C7_EmptyOutline ==
    /\ (built = "no" /\ src = <<>>) => (ENABLED NewOutline /\ ENABLED NewOrderedOutline)
    /\ (built # "no" /\ N = 0) =>
          /\ \A i \in ISize : Index(vertices, i) = Panic("rem_by_zero")
          /\ (op # "none" =>
                /\ ~res.ok
                /\ \/ res.fault = "rem_by_zero"
                   \/ (res.fault = "overflow" /\ idx = MinInt /\ op # "index"))

\* an angle query on an empty outline that ended in the remainder by zero
C7_Witness ==
    /\ built = "outline"
    /\ src = <<>>
    /\ N = 0
    /\ op = "outer_angle"
    /\ idx = 1
    /\ res = Panic("rem_by_zero")

---------------------------------------------------------------------------
\* C8: on a non-empty outline, for every value i of the index type, the
\* least and the greatest included, indexing at i, prev_that_next(i) and
\* to_neighbors(i) complete without fault or overflow and return the
\* vertices at the floor-modulo positions (i-1) mod n, i mod n, (i+1) mod n
\* computed over the mathematical integers.
C8_EveryIndexValid ==
    (built = "outline" /\ N > 0 /\ op \in {"index", "prev_that_next", "to_neighbors"}) =>
        /\ res.ok
        /\ (op = "index" => res.val = At(idx))
        /\ (op = "prev_that_next" =>
                /\ res.val[1] = At(idx - 1)
                /\ res.val[2] = At(idx)
                /\ res.val[3] = At(idx + 1))
        /\ (op = "to_neighbors" =>
                /\ res.val[1] = VSub(At(idx - 1), At(idx))
                /\ res.val[2] = VSub(At(idx + 1), At(idx)))

---------------------------------------------------------------------------
(* C9 compares a vertex j of the outline S with the same vertex, index       *)
(* n - 1 - j, of the outline R built from reverse(S).                        *)

Mirror == NewOrdered(vertices, "Clockwise")

\* the query of the current state, asked of R at the mirrored index
MirrorRes ==
    IF op = "convex" THEN Convex(Mirror, N - 1 - idx, FALSE)
    ELSE Concave(Mirror, N - 1 - idx, FALSE)

\* the sin of the vertex at idx is neither zero nor NaN
SinNonZero ==
    /\ InnerAngleCosSin(vertices, idx, FALSE).val[2].kind = "fin"
    /\ InnerAngleCosSin(vertices, idx, FALSE).val[2].num # 0

AtVertexOfPolygon ==
    /\ built = "outline"
    /\ N >= 3
    /\ op \in {"convex", "concave"}
    /\ idx \in 0 .. N - 1
    /\ res.ok

\* C9 as claimed: for every outline S of n >= 3 vertices and R built from
\* reverse(S), convex (and concave) on R at n-1-j is the negation of convex
\* (concave) on S at j, at every vertex.
C9_WindingInvertsConvexity ==
    AtVertexOfPolygon => (MirrorRes.ok /\ MirrorRes.val = ~res.val)

\* C9 as amended: the classification is inverted at every vertex whose sin
\* (as inner_angle_cos_sin computes it) is non-zero; where sin is zero or NaN
\* (collinear neighbours, or a neighbour coinciding with the vertex) S and R
\* both classify the vertex as concave.
C9_InvertsWhereSinNonZero ==
    AtVertexOfPolygon =>
        /\ MirrorRes.ok
        /\ (SinNonZero => MirrorRes.val = ~res.val)
        /\ (~SinNonZero => MirrorRes.val = res.val /\ res.val = (op = "concave"))

\* a convex corner of a triangle that is not convex in the reversed outline
C9_Witness ==
    /\ Distinct3
    /\ AtVertexOfPolygon
    /\ op = "convex"
    /\ idx = 1
    /\ SinNonZero
    /\ res = Ok(TRUE)
    /\ MirrorRes = Ok(FALSE)

---------------------------------------------------------------------------
\* C10: on an outline of two distinct points p0, p1, at(i) is p0 for even i
\* and p1 for odd i, prev_that_next(i) has previous = next, to_neighbors(i)
\* returns two identical vectors, and convexity is flagged as degenerate
\* rather than returned as an ordinary classification: a convexity or angle
\* query that returns rests on a non-finite cos or sin.
C10_TwoVertexDegenerate ==
    (built = "outline" /\ N = 2 /\ vertices[1] # vertices[2] /\ res.ok) =>
        /\ (op = "index" =>
                res.val = IF idx % 2 = 0 THEN vertices[1] ELSE vertices[2])
        /\ (op = "prev_that_next" => res.val[1] = res.val[3])
        /\ (op = "to_neighbors" => res.val[1] = res.val[2])
        /\ (op \in {"convex", "concave", "inner_angle_cos_sin", "inner_angle", "outer_angle"} =>
                LET cs == InnerAngleCosSin(vertices, idx, FALSE).val
                IN  ~IsFinite(cs[1]) \/ ~IsFinite(cs[2]))

====
